---------------------------- MODULE Spec2Model ----------------------------
(***************************************************************************)
(* md-writer: pure builders of Markdown fragments (src/src/lib.rs).        *)
(*                                                                         *)
(* A Rust &str / String is modelled as what it is: a sequence of UTF-8     *)
(* bytes (integers 0..255).  An Option<&str> is <<>> for None and <<s>>    *)
(* for Some(s).  Every builder is a pure function from its arguments to   *)
(* the String it returns.                                                  *)
(***************************************************************************)
EXTENDS Integers, Sequences, FiniteSets, TLC

VARIABLES pc, fn, chars, text, info, result

vars == <<pc, fn, chars, text, info, result>>

---------------------------------------------------------------------------
(* Bounds of the model. *)

\* longest text argument, in characters, drawn from the full alphabet
MaxChars == 3
\* longest info string, in characters
MaxInfoChars == 2
\* longest text argument of one repeated character, in characters
MaxLong == 6

---------------------------------------------------------------------------
(* Characters and strings. *)

\* pub const LF: char = '\n';
LF == 10

BACKTICK == 96
EQUALS == 61
HYPHEN == 45
HASH == 35
SPACE == 32

\* The characters inputs are made of: line feed, backtick, 'a' (one byte
\* each) and U+00E9 (two bytes).
Alphabet == {LF, BACKTICK, 97, 233}

\* char::encode_utf8 for the scalar values up to U+07FF.
Utf8Char(c) ==
    IF c < 128 THEN <<c>>
    ELSE <<192 + (c \div 64), 128 + (c % 64)>>

\* The &str holding the characters cs.
RECURSIVE Utf8(_)
Utf8(cs) == IF cs = <<>> THEN <<>> ELSE Utf8Char(Head(cs)) \o Utf8(Tail(cs))

None == <<>>
Some(s) == <<s>>

\* Option::unwrap_or
unwrap_or(opt, default) == IF opt = None THEN default ELSE opt[1]

\* str::repeat(n): n copies of s.  Its only panic, "capacity overflow", needs
\* Len(s) * n above isize::MAX; h1 and h2 pass n = text.chars().count(),
\* which is at most text.len() <= isize::MAX, and code_fence passes 3, so no
\* call of this crate reaches it.
Repeat(s, n) == [i \in 1..(Len(s) * n) |-> s[((i - 1) % Len(s)) + 1]]

\* text.chars().count(): the bytes that are not UTF-8 continuation bytes.
CharsCountBytes(s) == Len(s)

CharsCount(s) == Cardinality({i \in 1..Len(s) : s[i] < 128 \/ s[i] >= 192})

\* [..].join(sep)
RECURSIVE Join(_, _)
Join(parts, sep) ==
    IF parts = <<>> THEN <<>>
    ELSE IF Len(parts) = 1 THEN parts[1]
    ELSE parts[1] \o sep \o Join(Tail(parts), sep)


---------------------------------------------------------------------------
(* The builders of src/src/lib.rs. *)

code_fence_four(info_string) ==
    LET fence == Repeat(<<BACKTICK>>, 4)
    IN  fence \o unwrap_or(info_string, <<>>)

code_fence_default(info_string) ==
    LET fence == Repeat(<<BACKTICK>>, 3)
    IN  fence \o unwrap_or(info_string, <<116, 101, 120, 116>>)

code_fence(info_string) ==
    LET fence == Repeat(<<BACKTICK>>, 3)
    IN  fence \o unwrap_or(info_string, <<>>)

code_span_double(code) == <<BACKTICK, BACKTICK>> \o code \o <<BACKTICK, BACKTICK>>

code_span(code) == <<BACKTICK>> \o code \o <<BACKTICK>>

fenced_code_block_closing_info(code, info_string) ==
    Join(<<code_fence(info_string), code, code_fence(info_string)>>, <<LF>>)

fenced_code_block_no_info(code, info_string) ==
    Join(<<code_fence(None), code, code_fence(None)>>, <<LF>>)

fenced_code_block(code, info_string) ==
    Join(<<code_fence(info_string), code, code_fence(None)>>, <<LF>>)

\* "javascript"
fenced_js_code_block(code) ==
    fenced_code_block(code, Some(<<106, 97, 118, 97, 115, 99, 114, 105, 112, 116>>))

\* "rust"
fenced_rs_code_block(code) ==
    fenced_code_block(code, Some(<<114, 117, 115, 116>>))

\* "sh"
fenced_sh_code_block_sh(code) ==
    fenced_code_block(code, Some(<<115, 104>>))

\* "shell"
fenced_sh_code_block(code) ==
    fenced_code_block(code, Some(<<115, 104, 101, 108, 108>>))

\* "typescript"
fenced_ts_code_block(code) ==
    fenced_code_block(code, Some(<<116, 121, 112, 101, 115, 99, 114, 105, 112, 116>>))

h1(t) ==
    LET char_count == CharsCount(t)
        underline == Repeat(<<EQUALS>>, char_count)
    IN  (t \o <<LF>>) \o underline

h2_equals(t) ==
    LET char_count == CharsCount(t)
        underline == Repeat(<<EQUALS>>, char_count)
    IN  (t \o <<LF>>) \o underline

h2(t) ==
    LET char_count == CharsCount(t)
        underline == Repeat(<<HYPHEN>>, char_count)
    IN  (t \o <<LF>>) \o underline

h3(t) == <<HASH, HASH, HASH, SPACE>> \o t

h4(t) == <<HASH, HASH, HASH, HASH, SPACE>> \o t

h5_four(t) == <<HASH, HASH, HASH, HASH, SPACE>> \o t

h5(t) == <<HASH, HASH, HASH, HASH, HASH, SPACE>> \o t

h6(t) == <<HASH, HASH, HASH, HASH, HASH, HASH, SPACE>> \o t

---------------------------------------------------------------------------
(* Inputs. *)

SeqsUpTo(n) == UNION {[1..k -> Alphabet] : k \in 0..n}

\* the texts of every shape, up to MaxChars characters
CharSeqs == SeqsUpTo(MaxChars)

\* longer texts of one repeated character
LongCharSeqs ==
    {[i \in 1..n |-> c] : n \in (MaxChars + 1)..MaxLong, c \in Alphabet}

Infos == {None} \cup {Some(Utf8(cs)) : cs \in SeqsUpTo(MaxInfoChars)}

---------------------------------------------------------------------------
(* The state machine: one call of one builder on the arguments Init draws. *)

Init ==
    /\ pc = "ready"
    /\ fn = "none"
    /\ chars \in CharSeqs \cup LongCharSeqs
    /\ text = Utf8(chars)
    /\ info \in Infos
    /\ result = <<>>

\* The call of builder f returns r.
Call(f, r) ==
    /\ pc = "ready"
    /\ fn' = f
    /\ result' = r
    /\ pc' = "returned"
    /\ UNCHANGED <<chars, text, info>>

CallCodeFence == Call("code_fence", code_fence(info))
CallCodeSpan == Call("code_span", code_span(text))
CallFencedCodeBlock == Call("fenced_code_block", fenced_code_block(text, info))
CallFencedJsCodeBlock == Call("fenced_js_code_block", fenced_js_code_block(text))
CallFencedRsCodeBlock == Call("fenced_rs_code_block", fenced_rs_code_block(text))
CallFencedShCodeBlock == Call("fenced_sh_code_block", fenced_sh_code_block(text))
CallFencedTsCodeBlock == Call("fenced_ts_code_block", fenced_ts_code_block(text))
CallH1 == Call("h1", h1(text))
CallH2 == Call("h2", h2(text))
CallH3 == Call("h3", h3(text))
CallH4 == Call("h4", h4(text))
CallH5 == Call("h5", h5(text))
CallH6 == Call("h6", h6(text))

Next ==
    \/ CallCodeFence
    \/ CallCodeSpan
    \/ CallFencedCodeBlock
    \/ CallFencedJsCodeBlock
    \/ CallFencedRsCodeBlock
    \/ CallFencedShCodeBlock
    \/ CallFencedTsCodeBlock
    \/ CallH1
    \/ CallH2
    \/ CallH3
    \/ CallH4
    \/ CallH5
    \/ CallH6

Spec == Init /\ [][Next]_vars

---------------------------------------------------------------------------
(* Vocabulary of the properties. *)

HasLF(s) == \E i \in 1..Len(s) : s[i] = LF

CountLF(s) == Cardinality({i \in 1..Len(s) : s[i] = LF})

\* index of the first line feed of s, 0 when there is none
FirstLF(s) ==
    IF HasLF(s) THEN CHOOSE i \in 1..Len(s) : s[i] = LF /\ \A j \in 1..(i - 1) : s[j] # LF
    ELSE 0

\* index of the last line feed of s, 0 when there is none
LastLF(s) ==
    IF HasLF(s)
    THEN CHOOSE i \in 1..Len(s) : s[i] = LF /\ \A j \in (i + 1)..Len(s) : s[j] # LF
    ELSE 0

\* s split on line feed: the lines of s, at least one
RECURSIVE SplitLF(_)
SplitLF(s) ==
    LET i == FirstLF(s)
    IN  IF i = 0 THEN <<s>>
        ELSE <<SubSeq(s, 1, i - 1)>> \o SplitLF(SubSeq(s, i + 1, Len(s)))

\* s is made of the byte c only
OnlyOf(s, c) == \A i \in 1..Len(s) : s[i] = c

\* n copies of the byte c
Copies(c, n) == [i \in 1..n |-> c]

\* the info string as text, an absent one counted as the empty one
InfoText == IF info = None THEN <<>> ELSE info[1]

Returned(f) == pc = "returned" /\ fn = f

ThreeBackticks == <<96, 96, 96>>

---------------------------------------------------------------------------
(* C1 *)

\* The lines of a returned fenced code block: extra + (line feeds of the
\* code) of them, the first code_fence(info), the last three backticks,
\* the interior rejoined with line feeds the code.
FencedLinesOk(extra) ==
    LET lines == SplitLF(result)
        n == Len(lines)
    IN  /\ n = extra + CountLF(text)
        /\ lines[1] = code_fence(info)
        /\ lines[1] = ThreeBackticks \o InfoText
        /\ lines[n] = code_fence(None)
        /\ lines[n] = ThreeBackticks
        /\ Join(SubSeq(lines, 2, n - 1), <<LF>>) = text

\* C1 as stated: for every code and every optional info string the fenced
\* code block splits into exactly 2 + (line feeds of code) lines: opening
\* fence, the code, closing fence.
C1_TwoPlusLineFeeds == Returned("fenced_code_block") => FencedLinesOk(2)

\* C1 amended: for every code and every info string that contains no line
\* feed the fenced code block splits into exactly 3 + (line feeds of code)
\* lines: opening fence, the lines of the code, closing fence.
C1_FencedLines ==
    (Returned("fenced_code_block") /\ ~HasLF(InfoText)) => FencedLinesOk(3)

C1_Witness ==
    /\ Returned("fenced_code_block")
    /\ info # None /\ InfoText # <<>> /\ ~HasLF(InfoText)
    /\ CountLF(text) = 1 /\ Len(text) = 3
    /\ Len(SplitLF(result)) = 4

---------------------------------------------------------------------------
(* C2 *)

SetextLinesOk(c) ==
    LET lines == SplitLF(result)
    IN  /\ Len(lines) = 2
        /\ lines[1] = text
        /\ OnlyOf(lines[2], c)
        /\ Len(lines[2]) = Len(chars)

\* C2 as stated: for every text, h1 (h2) splits on line feed into exactly
\* two lines, the text and an underline of = (-) as long as the text has
\* Unicode scalar values.
C2_AllTexts ==
    /\ Returned("h1") => SetextLinesOk(EQUALS)
    /\ Returned("h2") => SetextLinesOk(HYPHEN)

\* C2 amended: the same for every text that contains no line feed.
C2_SetextLines ==
    /\ (Returned("h1") /\ ~HasLF(text)) => SetextLinesOk(EQUALS)
    /\ (Returned("h2") /\ ~HasLF(text)) => SetextLinesOk(HYPHEN)

C2_Witness ==
    /\ Returned("h2")
    /\ ~HasLF(text)
    /\ Len(chars) = 3 /\ Len(text) > Len(chars)
    /\ SplitLF(result)[2] = <<45, 45, 45>>

---------------------------------------------------------------------------
(* C3 *)

\* C3: a returned h1 (h2) is the text unmodified, one line feed, then = (-)
\* repeated once per character of the text, not once per byte; the
\* underline of the empty text is empty.
C3_Underline ==
    /\ Returned("h1") => result = (text \o <<LF>>) \o Copies(EQUALS, Len(chars))
    /\ Returned("h2") => result = (text \o <<LF>>) \o Copies(HYPHEN, Len(chars))
    /\ (Returned("h1") /\ chars = <<>>) => result = <<LF>>
    /\ (Returned("h2") /\ chars = <<>>) => result = <<LF>>

C3_Witness ==
    /\ Returned("h1")
    /\ Len(chars) = 2 /\ Len(text) = 4
    /\ result = (text \o <<LF>>) \o <<61, 61>>

---------------------------------------------------------------------------
(* C4 *)

\* C4: code_fence(s) starts with three backticks, and what follows them is
\* s, or nothing when s is absent.
C4_CodeFence ==
    Returned("code_fence") =>
        /\ Len(result) >= 3
        /\ SubSeq(result, 1, 3) = ThreeBackticks
        /\ SubSeq(result, 4, Len(result)) = InfoText
        /\ info = None => result = ThreeBackticks

C4_Witness ==
    /\ Returned("code_fence")
    /\ info # None /\ Len(InfoText) >= 2
    /\ Len(result) = 3 + Len(InfoText)

---------------------------------------------------------------------------
(* C5 *)

\* C5: each language-tagged builder returns what fenced_code_block returns
\* with the tag "javascript", "rust", "shell", "typescript".
C5_Tagged ==
    /\ Returned("fenced_js_code_block") =>
         result = fenced_code_block(text,
                     Some(<<106, 97, 118, 97, 115, 99, 114, 105, 112, 116>>))
    /\ Returned("fenced_rs_code_block") =>
         result = fenced_code_block(text, Some(<<114, 117, 115, 116>>))
    /\ Returned("fenced_sh_code_block") =>
         result = fenced_code_block(text, Some(<<115, 104, 101, 108, 108>>))
    /\ Returned("fenced_ts_code_block") =>
         result = fenced_code_block(text,
                     Some(<<116, 121, 112, 101, 115, 99, 114, 105, 112, 116>>))

C5_Witness ==
    /\ Returned("fenced_sh_code_block")
    /\ text # <<>>
    /\ SubSeq(result, 1, 9) = <<96, 96, 96, 115, 104, 101, 108, 108, 10>>

---------------------------------------------------------------------------
(* C6 *)

\* C6: h3 .. h6 return 3 .. 6 # characters, one space, then the text, and
\* nothing after it.
C6_Atx ==
    /\ Returned("h3") => result = (Copies(35, 3) \o <<32>>) \o text
    /\ Returned("h4") => result = (Copies(35, 4) \o <<32>>) \o text
    /\ Returned("h5") => result = (Copies(35, 5) \o <<32>>) \o text
    /\ Returned("h6") => result = (Copies(35, 6) \o <<32>>) \o text

C6_Witness ==
    /\ Returned("h5")
    /\ text # <<>>
    /\ Len(result) = 6 + Len(text)

---------------------------------------------------------------------------
(* C7 *)

\* C7: code_span(t) is one backtick, t verbatim, one backtick, also when t
\* holds backticks or line feeds.
C7_CodeSpan ==
    Returned("code_span") => result = (<<96>> \o text) \o <<96>>

C7_Witness ==
    /\ Returned("code_span")
    /\ HasLF(text) /\ (\E i \in 1..Len(text) : text[i] = 96)
    /\ Len(result) = Len(text) + 2

---------------------------------------------------------------------------
(* C9 *)

\* C9: an explicitly empty info string renders as an absent one, in
\* code_fence and in fenced_code_block.
C9_EmptyInfo ==
    /\ (Returned("code_fence") /\ info = Some(<<>>)) =>
         result = code_fence(None)
    /\ (Returned("fenced_code_block") /\ info = Some(<<>>)) =>
         result = fenced_code_block(text, None)
    /\ (Returned("code_fence") /\ info = None) =>
         result = code_fence(Some(<<>>))
    /\ (Returned("fenced_code_block") /\ info = None) =>
         result = fenced_code_block(text, Some(<<>>))

C9_Witness ==
    /\ Returned("fenced_code_block")
    /\ info = Some(<<>>)
    /\ text # <<>>
    /\ result = (<<96, 96, 96, 10>> \o text) \o <<10, 96, 96, 96>>

---------------------------------------------------------------------------
(* C10 *)

\* what a reader of the block takes for the info string: the text between
\* the three leading backticks and the first line feed
ReadInfo(block) == SubSeq(block, 4, FirstLF(block) - 1)

\* what a reader of the block takes for the code: the text between the
\* first and the last line feed
ReadCode(block) == SubSeq(block, FirstLF(block) + 1, LastLF(block) - 1)

\* C10: a fenced code block whose info string has no line feed gives back
\* its info string and its code, so two different (code, info) pairs never
\* give the same block; an info string with a line feed is not read back,
\* and the pair that is read gives the same block.
C10_ReadBack ==
    Returned("fenced_code_block") =>
        /\ ~HasLF(InfoText) =>
             /\ ReadInfo(result) = InfoText
             /\ ReadCode(result) = text
        /\ HasLF(InfoText) =>
             /\ <<ReadCode(result), ReadInfo(result)>> # <<text, InfoText>>
             /\ fenced_code_block(ReadCode(result), Some(ReadInfo(result))) = result

C10_Witness ==
    /\ Returned("fenced_code_block")
    /\ info # None /\ InfoText # <<>> /\ ~HasLF(InfoText)
    /\ HasLF(text)
    /\ ReadCode(result) = text

=============================================================================
